---- MODULE Spec2Model ----
(***************************************************************************)
(* Selection-and-aggregation core of the Superstore dashboard.             *)
(*                                                                         *)
(* The sources hold two interactive variants of the dashboard script:      *)
(*   "coordinated"  src/script.js 1-755 (and src/unnamed/part_000 447-1064)*)
(*                  globals selectedCategory / selectedState, applyFilters *)
(*   "checkbox"     src/script.js 756-1348                                 *)
(*                  global selectedCategories (a Set), updateAllCharts     *)
(* One behaviour of the model runs one of the two variants.                *)
(***************************************************************************)
EXTENDS Integers, Sequences, FiniteSets, Bags, TLC

\* ------------------------------------------------------------------ bounds
\* the demo video is this many steps of playback long
VideoLen == 2

\* at most this many d3.json map loads may be in flight at the same time
MaxPending == 2

\* ------------------------------------------------------- program constants
NULL == "null"

\* new Set(["Furniture", "Office Supplies", "Technology"])
SeedCategories == {"Furniture", "Office Supplies", "Technology"}

\* values of the "#filters input" checkboxes the change listener is bound to
CheckboxValues == SeedCategories

\* d3.timeMonth(null) floors new Date(0): the month of the epoch
EpochMonth == 0

Variants == {"coordinated", "checkbox"}

\* ---------------------------------------------------------------- inputs
\* names of the features of the us-atlas states file; "Z" has no record in
\* any dataset below
GeoStates == {"X", "Y", "Z"}

\* A raw csv row.  bad = the fields whose text does not parse
\* ("Sales": +d.Sales is NaN, "Date": the order date is unparseable).
Row(c, s, sales, profit, m, bad) ==
    [Category |-> c, State |-> s, Sales |-> sales, Profit |-> profit,
     Month |-> m, bad |-> bad]

Scenario ==
    << Row("A", "X", 100, 10, 1, {}),
       Row("B", "X", 50, 5, 2, {}),
       Row("A", "Y", 25, 2, 2, {}) >>

TwoCats ==
    << Row("Office Supplies", "X", 30, 3, 2, {}),
       Row("Furniture", "X", 40, 4, 1, {}),
       Row("Furniture", "Y", -10, -5, 2, {}) >>

Dirty ==
    << Row("Technology", "X", 70, 7, 1, {}),
       Row("Furniture", "Y", 20, -2, 3, {}),
       Row("Office Supplies", "X", 0, 1, 2, {"Sales"}),
       Row("Technology", "Y", 10, 1, 1, {"Date"}) >>

RawDatasets == {Scenario, TwoCats, Dirty}

\* ------------------------------------------------------------- variables
VARIABLES
    variant,             \* which script runs
    rawRows,             \* the rows d3.csv will deliver
    loaded,              \* the d3.csv callback has run
    data,                \* the parsed records
    selectedCategory,    \* coordinated: NULL = all categories
    selectedState,       \* coordinated: NULL = all states
    selectedCategories,  \* checkbox: the Set of active categories
    checked,             \* checkbox: the checked property of each input
    bar,                 \* what #category-sales shows
    line,                \* what #monthly-sales shows
    scatter,             \* what #sales-profit shows
    map,                 \* what #regional-sales shows
    pending,             \* the bag of d3.json loads in flight
    hist,                \* the last two selection gestures, oldest first
    hover,               \* the tooltip and the marks emphasised by hovering
    modal                \* the demo video modal and its video element

vars == << variant, rawRows, loaded, data, selectedCategory, selectedState,
           selectedCategories, checked, bar, line, scatter, map, pending,
           hist, hover, modal >>

\* -------------------------------------------------------- sequence helpers
Range(s) == {s[i] : i \in DOMAIN s}

Ids(rows) == {r.id : r \in Range(rows)}

IsNaN(r, f) == f \in r.nan

\* ------------------------------------------------------- loading the rows
\* rawData.map(d => ({...d, Sales: +d.Sales, ...})): the record of row i.
\* nan = the measures that parsed to NaN, dateOk = the date parsed.
ParseRow(row, i) ==
    [id |-> i, Category |-> row.Category, State |-> row.State,
     Sales |-> row.Sales, Profit |-> row.Profit, Month |-> row.Month,
     nan |-> row.bad \cap {"Sales", "Profit"},
     dateOk |-> "Date" \notin row.bad]

ParseAll(rows) == [i \in 1..Len(rows) |-> ParseRow(rows[i], i)]

\* coordinated: .filter(d => !isNaN(d.OrderDate))
LoadCoordinated(rows) == SelectSeq(ParseAll(rows), LAMBDA r : r.dateOk)

\* checkbox: data.forEach(d => {...}) converts in place and drops nothing
LoadCheckbox(rows) == ParseAll(rows)

\* ------------------------------------------------------ aggregation engine
\* d3.timeMonth(d.OrderDate)
MonthKey(r) == IF r.dateOk THEN r.Month ELSE EpochMonth

KeyOf(r, dim) ==
    CASE dim = "Category" -> r.Category
      [] dim = "State"    -> r.State
      [] dim = "Month"    -> MonthKey(r)

\* d3.sum(v, d => d.Sales): NaN values are skipped
RECURSIVE SumSales(_)
SumSales(rows) ==
    IF rows = << >> THEN 0
    ELSE (IF IsNaN(Head(rows), "Sales") THEN 0 ELSE Head(rows).Sales)
         + SumSales(Tail(rows))

\* the keys of a rollup, in order of first appearance (Map insertion order)
RECURSIVE DistinctKeys(_, _, _)
DistinctKeys(rows, dim, seen) ==
    IF rows = << >> THEN << >>
    ELSE LET k == KeyOf(Head(rows), dim) IN
         IF k \in seen THEN DistinctKeys(Tail(rows), dim, seen)
         ELSE << k >> \o DistinctKeys(Tail(rows), dim, seen \cup {k})

\* d3.rollup(rows, v => d3.sum(v, d => d.Sales), d => d[dim]) as the
\* sequence of << key, sum >> entries
Rollup(rows, dim) ==
    LET keys == DistinctKeys(rows, dim, {}) IN
    [i \in 1..Len(keys) |->
        << keys[i],
           SumSales(SelectSeq(rows, LAMBDA r : KeyOf(r, dim) = keys[i])) >>]

\* .sort((a, b) => b.sales - a.sales), a stable sort: an entry goes behind
\* every entry whose sum is not smaller
RECURSIVE InsertDesc(_, _)
InsertDesc(s, e) ==
    IF s = << >> THEN << e >>
    ELSE IF e[2] > Head(s)[2] THEN << e >> \o s
         ELSE << Head(s) >> \o InsertDesc(Tail(s), e)

RECURSIVE SortDescInto(_, _)
SortDescInto(s, acc) ==
    IF s = << >> THEN acc
    ELSE SortDescInto(Tail(s), InsertDesc(acc, Head(s)))

SortDesc(s) == SortDescInto(s, << >>)

\* .sort((a, b) => a.date - b.date)
RECURSIVE InsertAscKey(_, _)
InsertAscKey(s, e) ==
    IF s = << >> THEN << e >>
    ELSE IF e[1] < Head(s)[1] THEN << e >> \o s
         ELSE << Head(s) >> \o InsertAscKey(Tail(s), e)

RECURSIVE SortAscKeyInto(_, _)
SortAscKeyInto(s, acc) ==
    IF s = << >> THEN acc
    ELSE SortAscKeyInto(Tail(s), InsertAscKey(acc, Head(s)))

SortAscKey(s) == SortAscKeyInto(s, << >>)

\* Map.get(key) || 0
GetOrZero(entries, key) ==
    IF \E i \in DOMAIN entries : entries[i][1] = key
    THEN LET i == CHOOSE j \in DOMAIN entries : entries[j][1] = key
         IN entries[i][2]
    ELSE 0

\* the categories with a record in the loaded data
KnownCategories == {r.Category : r \in Range(data)}

\* the states with a record in the loaded data
KnownStates == {r.State : r \in Range(data)}

\* the selection the views read
Filter == [cat |-> selectedCategory, state |-> selectedState,
           cats |-> selectedCategories]

\* ------------------------------------------------------------- the views
\* A view is described by what it was drawn from: rows = the ids of the
\* records its aggregate was computed over, chartData = the ordered
\* aggregate, sel = the value of every selection global (or the selection
\* its argument was filtered by) that the drawing read.
NoSel == << >>

BlankBar == [drawn |-> FALSE, rows |-> {}, chartData |-> << >>,
             sel |-> NoSel, overlay |-> << >>]

BlankLine == [drawn |-> FALSE, rows |-> {}, chartData |-> << >>,
              sel |-> NoSel, message |-> FALSE, trend |-> NULL]

BlankScatter == [drawn |-> FALSE, rows |-> {}, sel |-> NoSel,
                 message |-> FALSE]

BlankMap == [drawn |-> FALSE, rows |-> {}, chartData |-> {},
             sel |-> NoSel, layers |-> 0, bound |-> << >>]

createCategoryBarChartOfSelected(d, cat, state) ==
    LET shown == IF cat # NULL
                 THEN SelectSeq(d, LAMBDA r : r.Category = cat)
                 ELSE d
    IN [drawn |-> TRUE, rows |-> Ids(shown),
        chartData |-> SortDesc(Rollup(shown, "Category")),
        sel |-> [cat |-> cat, state |-> state], overlay |-> << >>]

createCategoryBarChartFiltered(d, cat, state) ==
    LET shown == IF state # NULL
                 THEN SelectSeq(d, LAMBDA r : r.State = state)
                 ELSE d
    IN [drawn |-> TRUE, rows |-> Ids(shown),
        chartData |-> SortDesc(Rollup(shown, "Category")),
        sel |-> [cat |-> cat, state |-> state], overlay |-> << >>]

\* coordinated: the bars are the totals of the whole dataset; a selected
\* state adds an overlay of its own sum (or 0) on every bar
createCategoryBarChart(d, cat, state) ==
    LET chartData == SortDesc(Rollup(d, "Category"))
        stateData == SelectSeq(d, LAMBDA r : r.State = state)
        stateCatRollup == Rollup(stateData, "Category")
    IN [drawn |-> TRUE, rows |-> Ids(d), chartData |-> chartData,
        sel |-> [cat |-> cat, state |-> state],
        overlay |-> IF state # NULL
                    THEN [i \in DOMAIN chartData |->
                            << chartData[i][1],
                               GetOrZero(stateCatRollup, chartData[i][1]) >>]
                    ELSE << >>]

\* coordinated: the monthly totals of the selected state, or of everything
createMonthlySalesLineChart(d, state) ==
    LET filteredData == IF state # NULL
                        THEN SelectSeq(d, LAMBDA r : r.State = state)
                        ELSE d
    IN IF Len(filteredData) = 0
       THEN [drawn |-> TRUE, rows |-> {}, chartData |-> << >>,
             sel |-> [state |-> state], message |-> TRUE, trend |-> state]
       ELSE [drawn |-> TRUE, rows |-> Ids(filteredData),
             chartData |-> SortAscKey(Rollup(filteredData, "Month")),
             sel |-> [state |-> state], message |-> FALSE, trend |-> state]

createSalesVsProfitScatterNoState(d, cat, state) ==
    LET byCat == IF cat # NULL
                 THEN SelectSeq(d, LAMBDA r : r.Category = cat)
                 ELSE d
        filteredData == SelectSeq(byCat,
                            LAMBDA r : ~IsNaN(r, "Sales") /\ r.Sales > 0)
    IN [drawn |-> TRUE, rows |-> Ids(filteredData),
        sel |-> [cat |-> cat, state |-> state],
        message |-> (Len(filteredData) = 0)]

createSalesVsProfitScatterAnySales(d, cat, state) ==
    LET byCat == IF cat # NULL
                 THEN SelectSeq(d, LAMBDA r : r.Category = cat)
                 ELSE d
        filteredData == IF state # NULL
                        THEN SelectSeq(byCat, LAMBDA r : r.State = state)
                        ELSE byCat
    IN [drawn |-> TRUE, rows |-> Ids(filteredData),
        sel |-> [cat |-> cat, state |-> state],
        message |-> (Len(filteredData) = 0)]

\* coordinated: the points of the selected category and state with Sales > 0
\* (the older copy in src/unnamed/part_000 769-800 has no Sales > 0 filter)
createSalesVsProfitScatter(d, cat, state) ==
    LET byCat == IF cat # NULL
                 THEN SelectSeq(d, LAMBDA r : r.Category = cat)
                 ELSE d
        byState == IF state # NULL
                   THEN SelectSeq(byCat, LAMBDA r : r.State = state)
                   ELSE byCat
        filteredData == SelectSeq(byState,
                            LAMBDA r : ~IsNaN(r, "Sales") /\ r.Sales > 0)
    IN [drawn |-> TRUE, rows |-> Ids(filteredData),
        sel |-> [cat |-> cat, state |-> state],
        message |-> (Len(filteredData) = 0)]

FeatureSalesKnownOnly(d) ==
    LET salesByState == Rollup(d, "State")
    IN {<< salesByState[i][1], salesByState[i][2] >> :
            i \in DOMAIN salesByState}

\* the value shown for every feature of the map: salesByState.get(name) || 0
FeatureSales(d) ==
    LET salesByState == Rollup(d, "State")
    IN {<< s, GetOrZero(salesByState, s) >> : s \in GeoStates}

\* coordinated: the .then of d3.json draws the states from the rows the
\* call was given and styles them by the selectedState of that moment
DrawCoordinatedMap(m, d, state) ==
    [drawn |-> TRUE, rows |-> Ids(d), chartData |-> FeatureSales(d),
     sel |-> [state |-> state], layers |-> m.layers + 1, bound |-> d]

\* checkbox variant: every view is drawn from the rows updateAllCharts
\* filtered by selectedCategories
categorySalesChart(d, cats) ==
    [drawn |-> TRUE, rows |-> Ids(d),
     chartData |-> SortDesc(Rollup(d, "Category")),
     sel |-> [cats |-> cats], overlay |-> << >>]

\* the scatter scales are computed over its argument; the quantile clipping
\* of the drawn points is geometry and is left out
salesProfitScatter(d, cats) ==
    [drawn |-> TRUE, rows |-> Ids(d), sel |-> [cats |-> cats],
     message |-> FALSE]

monthlySalesTrend(d, cats) ==
    [drawn |-> TRUE, rows |-> Ids(d),
     chartData |-> SortAscKey(Rollup(d, "Month")),
     sel |-> [cats |-> cats], message |-> FALSE, trend |-> NULL]

monthlySalesTrendForState(d, cats, stateName) ==
    LET filtered == SelectSeq(d, LAMBDA r : r.State = stateName)
    IN [drawn |-> TRUE, rows |-> Ids(filtered),
        chartData |-> SortAscKey(Rollup(filtered, "Month")),
        sel |-> [cats |-> cats], message |-> FALSE, trend |-> stateName]

\* checkbox: the .then of d3.json appends one layer of states and bubbles
\* computed from the rows the call was given
DrawCheckboxMap(m, d, cats) ==
    [drawn |-> TRUE, rows |-> Ids(d), chartData |-> FeatureSales(d),
     sel |-> [cats |-> cats], layers |-> m.layers + 1, bound |-> d]

\* ---------------------------------------------------------------- history
\* A handled selection gesture: the handler, its argument, the selection
\* before it ran, whether it went on to redraw the views, and what it
\* handed back to its caller (the handlers return nothing).
Gesture(op, arg) ==
    [op |-> op, arg |-> arg, before |-> Filter, redrawn |-> TRUE,
     signal |-> "none"]

\* hist keeps the last gesture and the one before it
Push(h, e) == IF h = << >> THEN << e >> ELSE << h[Len(h)], e >>

\* ----------------------------------------------------------------- hover
\* tooltip: the tooltip div has class visible; highlight: the category
\* the last highlightCategory call emphasised among the marks then drawn;
\* stroke: the state path of the coordinated map carrying the hover stroke;
\* pointer: the state path of the coordinated map the pointer is over
NoHover == [tooltip |-> FALSE, highlight |-> NULL, stroke |-> NULL,
            pointer |-> NULL]

showTooltip(h) == [h EXCEPT !.tooltip = TRUE]

hideTooltip(h) == [h EXCEPT !.tooltip = FALSE]

highlightCategory(h, category) == [h EXCEPT !.highlight = category]

resetHighlight(h) == [h EXCEPT !.highlight = NULL]

\* ------------------------------------------------------------ video modal
\* hidden: #video-modal has class hidden; paused, currentTime: the state of
\* #demo-video; event: the last click or key press the modal script handled
ClosedModal == [hidden |-> TRUE, paused |-> TRUE, currentTime |-> 0,
                event |-> "none"]

\* modal.classList.add("hidden"); video.pause(); video.currentTime = 0
CloseModal(m) == [m EXCEPT !.hidden = TRUE, !.paused = TRUE, !.currentTime = 0]

\* ------------------------------------------------------------------ Init
Init ==
    /\ variant \in Variants
    /\ rawRows \in RawDatasets
    /\ loaded = FALSE
    /\ data = << >>
    /\ selectedCategory = NULL
    /\ selectedState = NULL
    /\ selectedCategories = SeedCategories
    /\ checked = [v \in CheckboxValues |-> TRUE]
    /\ bar = BlankBar
    /\ line = BlankLine
    /\ scatter = BlankScatter
    /\ map = BlankMap
    /\ pending = EmptyBag
    /\ hist = << >>
    /\ hover = NoHover
    /\ modal = ClosedModal

\* ------------------------------------------------------------ coordinated
applyFiltersAborting(d, cat, state) ==
    /\ bar' = createCategoryBarChart(d, cat, state)
    /\ line' = createMonthlySalesLineChart(d, state)
    /\ scatter' = IF line'.message THEN scatter
                  ELSE createSalesVsProfitScatter(d, cat, state)

\* applyFilters(): bar chart, line chart and scatter are redrawn, in this
\* order and without yielding, from the selection given
applyFilters(d, cat, state) ==
    /\ bar' = createCategoryBarChart(d, cat, state)
    /\ line' = createMonthlySalesLineChart(d, state)
    /\ scatter' = createSalesVsProfitScatter(d, cat, state)

\* a d3.json load in flight: the rows and the selection its .then closes
\* over, and whether the csv callback or a gesture handler started it
MapLoad(rows, sel) ==
    [rows |-> rows, sel |-> sel,
     origin |-> IF loaded THEN "gesture" ELSE "load"]

\* regionalSalesMap(rows): the svg is cleared at once, the drawing waits
\* for d3.json
regionalSalesMap(rows, sel) ==
    /\ map' = BlankMap
    /\ pending' = pending (+) SetToBag({MapLoad(rows, sel)})

\* the d3.csv callback of the coordinated script
CsvLoadedCoordinated ==
    /\ variant = "coordinated"
    /\ ~loaded
    /\ loaded' = TRUE
    /\ data' = LoadCoordinated(rawRows)
    /\ applyFilters(data', selectedCategory, selectedState)
    /\ regionalSalesMap(data', NoSel)
    /\ UNCHANGED << variant, rawRows, selectedCategory, selectedState,
                    selectedCategories, checked, hist, hover, modal >>

\* click on the bar of category c
ToggleCategoryNoDeselect(cur, c) == c

ToggleCategoryNoReplace(cur, c) == IF cur = NULL THEN c ELSE NULL

ToggleCategory(cur, c) == IF cur = c THEN NULL ELSE c

BarClickNarrowing(c) ==
    /\ variant = "coordinated"
    /\ bar.drawn
    /\ \E i \in DOMAIN bar.chartData : bar.chartData[i][1] = c
    /\ selectedCategory' = ToggleCategory(selectedCategory, c)
    /\ data' = SelectSeq(data, LAMBDA r : r.Category = c)
    /\ applyFilters(data', selectedCategory', selectedState)
    /\ hist' = Push(hist, Gesture("barClick", c))
    /\ UNCHANGED << variant, rawRows, loaded, selectedState,
                    selectedCategories, checked, map, pending, hover, modal >>

BarClick(c) ==
    /\ variant = "coordinated"
    /\ bar.drawn
    /\ \E i \in DOMAIN bar.chartData : bar.chartData[i][1] = c
    /\ selectedCategory' = ToggleCategory(selectedCategory, c)
    /\ applyFilters(data, selectedCategory', selectedState)
    /\ hist' = Push(hist, Gesture("barClick", c))
    /\ UNCHANGED << variant, rawRows, loaded, data, selectedState,
                    selectedCategories, checked, map, pending, hover, modal >>

ToggleStateNoDeselect(cur, stateName) == stateName

ToggleStateNoReplace(cur, stateName) == IF cur = NULL THEN stateName ELSE NULL

ToggleStateRejectUnknown(cur, stateName) ==
    IF stateName \notin KnownStates THEN cur
    ELSE IF cur = stateName THEN NULL ELSE stateName

ToggleState(cur, stateName) == IF cur = stateName THEN NULL ELSE stateName

MapClickRecomputing(stateName) ==
    /\ variant = "coordinated"
    /\ map.drawn
    /\ stateName \in GeoStates
    /\ selectedState' = ToggleState(selectedState, stateName)
    /\ applyFilters(data, selectedCategory, selectedState')
    /\ map' = [map EXCEPT
                 !.sel = [state |-> selectedState'],
                 !.chartData =
                    FeatureSales(IF selectedState' = NULL THEN data
                                 ELSE SelectSeq(data,
                                    LAMBDA r : r.State = selectedState'))]
    /\ hist' = Push(hist, Gesture("mapClick", stateName))
    /\ hover' = [hover EXCEPT !.stroke = NULL]
    /\ UNCHANGED << variant, rawRows, loaded, data, selectedCategory,
                    selectedCategories, checked, pending, modal >>

\* click on the map feature named stateName: toggle, redraw the other
\* views, then restyle every state path
MapClick(stateName) ==
    /\ variant = "coordinated"
    /\ map.drawn
    /\ stateName \in GeoStates
    /\ selectedState' = ToggleState(selectedState, stateName)
    /\ applyFilters(data, selectedCategory, selectedState')
    /\ map' = [map EXCEPT !.sel = [state |-> selectedState']]
    /\ hist' = Push(hist, Gesture("mapClick", stateName))
    /\ hover' = [hover EXCEPT !.stroke = NULL]
    /\ UNCHANGED << variant, rawRows, loaded, data, selectedCategory,
                    selectedCategories, checked, pending, modal >>

\* --------------------------------------------------------------- checkbox
updateAllChartsUnfiltered(d, cats) ==
    /\ bar' = categorySalesChart(d, cats)
    /\ scatter' = salesProfitScatter(d, cats)
    /\ line' = monthlySalesTrend(d, cats)
    /\ regionalSalesMap(d, [cats |-> cats])

\* updateAllCharts(): filter by the Set, clear every svg, draw bar chart,
\* scatter and line chart, start a map load with the filtered rows
updateAllCharts(d, cats) ==
    LET filtered == SelectSeq(d, LAMBDA r : r.Category \in cats)
    IN /\ bar' = categorySalesChart(filtered, cats)
       /\ scatter' = salesProfitScatter(filtered, cats)
       /\ line' = monthlySalesTrend(filtered, cats)
       /\ regionalSalesMap(filtered, [cats |-> cats])

\* the d3.csv callback of the checkbox script: convert, bind the change
\* listener, draw
CsvLoadedCheckbox ==
    /\ variant = "checkbox"
    /\ ~loaded
    /\ loaded' = TRUE
    /\ data' = LoadCheckbox(rawRows)
    /\ updateAllCharts(data', selectedCategories)
    /\ UNCHANGED << variant, rawRows, selectedCategory, selectedState,
                    selectedCategories, checked, hist, hover, modal >>

\* if (this.checked) add(this.value) else delete(this.value)
ChangeCategories(cats, value, isChecked) ==
    IF isChecked THEN cats \cup {value} ELSE cats \ {value}

CheckboxChangeBoundEarly(v) ==
    /\ variant = "checkbox"
    /\ v \in CheckboxValues
    /\ BagCardinality(pending) < MaxPending
    /\ checked' = [checked EXCEPT ![v] = ~checked[v]]
    /\ selectedCategories' = ChangeCategories(selectedCategories, v, checked'[v])
    /\ updateAllCharts(data, selectedCategories')
    /\ hist' = Push(hist, Gesture("checkboxChange", v))
    /\ hover' = [hover EXCEPT !.highlight = NULL]
    /\ UNCHANGED << variant, rawRows, loaded, data, selectedCategory,
                    selectedState, modal >>

\* the user flips the checkbox with value v
CheckboxChange(v) ==
    /\ variant = "checkbox"
    /\ loaded
    /\ v \in CheckboxValues
    /\ BagCardinality(pending) < MaxPending
    /\ checked' = [checked EXCEPT ![v] = ~checked[v]]
    /\ selectedCategories' = ChangeCategories(selectedCategories, v, checked'[v])
    /\ updateAllCharts(data, selectedCategories')
    /\ hist' = Push(hist, Gesture("checkboxChange", v))
    /\ hover' = [hover EXCEPT !.highlight = NULL]
    /\ UNCHANGED << variant, rawRows, loaded, data, selectedCategory,
                    selectedState, modal >>

\* click on the bubble of stateName: the line chart is replaced by the
\* trend of that state over the rows the bubble layer was drawn from
BubbleClick(stateName) ==
    /\ variant = "checkbox"
    /\ map.drawn
    /\ stateName \in GeoStates
    /\ line' = monthlySalesTrendForState(map.bound, map.sel.cats, stateName)
    /\ UNCHANGED << variant, rawRows, loaded, data, selectedCategory,
                    selectedState, selectedCategories, checked, bar, scatter,
                    map, pending, hist, hover, modal >>

\* ------------------------------------------------------------- both
\* one of the d3.json loads in flight resolves and its .then draws the map
MapLoadResolved(load) ==
    /\ BagIn(load, pending)
    /\ map' = IF variant = "coordinated"
              THEN DrawCoordinatedMap(map, load.rows, selectedState)
              ELSE DrawCheckboxMap(map, load.rows, load.sel.cats)
    /\ pending' = pending (-) SetToBag({load})
    /\ UNCHANGED << variant, rawRows, loaded, data, selectedCategory,
                    selectedState, selectedCategories, checked, bar, line,
                    scatter, hist, hover, modal >>

\* ------------------------------------------------------------- hovering
\* the hover handlers write nothing but the tooltip and mark styles
HoverFrame ==
    UNCHANGED << variant, rawRows, loaded, data, selectedCategory,
                 selectedState, selectedCategories, checked, bar, line,
                 scatter, map, pending, hist, modal >>

\* the categories that have a bar, and those that have a scatter point
BarCategories == {bar.chartData[i][1] : i \in DOMAIN bar.chartData}

PointCategories ==
    {r.Category : r \in {x \in Range(data) : x.id \in scatter.rows}}

\* checkbox map: the category with the largest sum in a state, null when
\* the state has no row
topCategory(d, state) ==
    LET inState == SelectSeq(d, LAMBDA r : r.State = state)
    IN IF inState = << >> THEN NULL
       ELSE SortDesc(Rollup(inState, "Category"))[1][1]

\* the pointer enters the bar of category c
BarMouseoverSelecting(c) ==
    /\ bar.drawn /\ c \in BarCategories
    /\ hover' = showTooltip(hover)
    /\ IF variant = "coordinated"
       THEN /\ selectedCategory' = c
            /\ UNCHANGED selectedCategories
       ELSE /\ selectedCategories' = {c}
            /\ UNCHANGED selectedCategory
    /\ UNCHANGED << variant, rawRows, loaded, data, selectedState, checked,
                    bar, line, scatter, map, pending, hist, modal >>

BarMouseover(c) ==
    /\ bar.drawn /\ c \in BarCategories
    /\ hover' = IF variant = "coordinated"
                THEN showTooltip(hover)
                ELSE showTooltip(highlightCategory(hover, c))
    /\ HoverFrame

\* the pointer leaves a bar
BarMouseout ==
    /\ bar.drawn /\ BarCategories # {}
    /\ hover' = IF variant = "coordinated"
                THEN hideTooltip(hover)
                ELSE hideTooltip(resetHighlight(hover))
    /\ HoverFrame

\* the pointer enters a scatter point of category c
PointMouseover(c) ==
    /\ scatter.drawn /\ c \in PointCategories
    /\ hover' = IF variant = "coordinated"
                THEN showTooltip(hover)
                ELSE showTooltip(highlightCategory(hover, c))
    /\ HoverFrame

\* the pointer leaves a scatter point
PointMouseout ==
    /\ scatter.drawn /\ PointCategories # {}
    /\ hover' = IF variant = "coordinated"
                THEN hideTooltip(hover)
                ELSE hideTooltip(resetHighlight(hover))
    /\ HoverFrame

\* the pointer enters a dot of the line chart
DotMouseover ==
    /\ line.drawn /\ line.chartData # << >>
    /\ hover' = showTooltip(hover)
    /\ HoverFrame

\* the pointer leaves a dot of the line chart
DotMouseout ==
    /\ line.drawn /\ line.chartData # << >>
    /\ hover' = hideTooltip(hover)
    /\ HoverFrame

\* the pointer enters the path (coordinated) or bubble (checkbox) of a state
MapMouseover(stateName) ==
    /\ map.drawn /\ stateName \in GeoStates
    /\ variant = "coordinated" => hover.pointer = NULL
    /\ hover' =
        IF variant = "coordinated"
        THEN showTooltip([hover EXCEPT !.stroke = stateName,
                                       !.pointer = stateName])
        ELSE LET category == topCategory(map.bound, stateName)
             IN showTooltip(IF category # NULL
                            THEN highlightCategory(hover, category)
                            ELSE hover)
    /\ HoverFrame

MapMouseoutKeepingStroke(stateName) ==
    /\ map.drawn /\ stateName \in GeoStates
    /\ variant = "coordinated" => hover.pointer = stateName
    /\ hover' =
        IF variant = "coordinated"
        THEN hideTooltip([hover EXCEPT !.pointer = NULL])
        ELSE hideTooltip(resetHighlight(hover))
    /\ HoverFrame

\* the pointer leaves it: the coordinated path gets the stroke its
\* selection asks for
MapMouseout(stateName) ==
    /\ map.drawn /\ stateName \in GeoStates
    /\ variant = "coordinated" => hover.pointer = stateName
    /\ hover' =
        IF variant = "coordinated"
        THEN hideTooltip([hover EXCEPT !.stroke = NULL, !.pointer = NULL])
        ELSE hideTooltip(resetHighlight(hover))
    /\ HoverFrame

Next ==
    \/ CsvLoadedCoordinated
    \/ CsvLoadedCheckbox
    \/ \E c \in KnownCategories : BarClick(c)
    \/ \E s \in GeoStates : MapClick(s)
    \/ \E v \in CheckboxValues : CheckboxChange(v)
    \/ \E s \in GeoStates : BubbleClick(s)
    \/ \E load \in BagToSet(pending) : MapLoadResolved(load)

Spec == Init /\ [][Next]_vars

\* the dashboard with the pointer moving over the marks as well
Hovering ==
    \/ \E c \in KnownCategories : BarMouseover(c)
    \/ BarMouseout
    \/ \E c \in KnownCategories : PointMouseover(c)
    \/ PointMouseout
    \/ DotMouseover
    \/ DotMouseout
    \/ \E s \in GeoStates : MapMouseover(s)
    \/ \E s \in GeoStates : MapMouseout(s)

NextHover == Next \/ Hovering

\* hovering is explored on one of the datasets
InitHover == Init /\ rawRows = TwoCats

SpecHover == InitHover /\ [][NextHover]_vars

\* ---------------------------------------------------------- video modal
\* the modal handlers read and write nothing of the dashboard
ModalFrame ==
    UNCHANGED << variant, rawRows, loaded, data, selectedCategory,
                 selectedState, selectedCategories, checked, bar, line,
                 scatter, map, pending, hist, hover >>

\* click on #demo-btn
DemoBtnClick ==
    /\ modal' = [modal EXCEPT !.hidden = FALSE, !.event = "demoBtn"]
    /\ ModalFrame

\* click on #close-modal, a button inside the modal
CloseModalClick ==
    /\ ~modal.hidden
    /\ modal' = [CloseModal(modal) EXCEPT !.event = "closeBtn"]
    /\ ModalFrame

\* click that reaches the listener of the modal with target = the modal
\* itself (targetIsModal) or one of its descendants
ModalClickAnyTarget(targetIsModal) ==
    /\ ~modal.hidden
    /\ modal' = [CloseModal(modal) EXCEPT
                    !.event = IF targetIsModal THEN "background" ELSE "content"]
    /\ ModalFrame

ModalClick(targetIsModal) ==
    /\ ~modal.hidden
    /\ modal' = IF targetIsModal
                THEN [CloseModal(modal) EXCEPT !.event = "background"]
                ELSE [modal EXCEPT !.event = "content"]
    /\ ModalFrame

\* keydown of Escape anywhere in the document
EscapeKeydown ==
    /\ modal' = IF ~modal.hidden
                THEN [CloseModal(modal) EXCEPT !.event = "escape"]
                ELSE [modal EXCEPT !.event = "escape"]
    /\ ModalFrame

\* the user starts or stops the video with its controls
VideoPlay ==
    /\ ~modal.hidden /\ modal.paused /\ modal.currentTime < VideoLen
    /\ modal' = [modal EXCEPT !.paused = FALSE]
    /\ ModalFrame

VideoPause ==
    /\ ~modal.hidden /\ ~modal.paused
    /\ modal' = [modal EXCEPT !.paused = TRUE]
    /\ ModalFrame

\* playback advances; the video pauses at its end
VideoTimeUpdate ==
    /\ ~modal.paused /\ modal.currentTime < VideoLen
    /\ modal' = [modal EXCEPT
                    !.currentTime = @ + 1,
                    !.paused = (modal.currentTime + 1 = VideoLen)]
    /\ ModalFrame

ModalEvents ==
    \/ DemoBtnClick
    \/ CloseModalClick
    \/ \E targetIsModal \in BOOLEAN : ModalClick(targetIsModal)
    \/ EscapeKeydown
    \/ VideoPlay
    \/ VideoPause
    \/ VideoTimeUpdate

\* the handlers of the coordinated script, those of the modal included
NextModal ==
    \/ CsvLoadedCoordinated
    \/ \E c \in KnownCategories : BarClick(c)
    \/ \E s \in GeoStates : MapClick(s)
    \/ \E load \in BagToSet(pending) : MapLoadResolved(load)
    \/ ModalEvents

\* the modal belongs to the coordinated script; one dataset is enough
InitModal == Init /\ variant = "coordinated" /\ rawRows = Scenario

SpecModal == InitModal /\ [][NextModal]_vars

\* ======================================================================
\* Properties
\* ======================================================================
HasLast == Len(hist) >= 1
Last == hist[Len(hist)]
HasTwo == Len(hist) >= 2
Prev == hist[Len(hist) - 1]

\* a drawn view shows the current selection in everything it read
Reflects(v) == v.drawn => \A f \in DOMAIN v.sel : v.sel[f] = Filter[f]

\* the categories the current selection makes active
ActiveCategories ==
    IF variant = "checkbox" THEN selectedCategories
    ELSE IF selectedCategory = NULL THEN KnownCategories
         ELSE {selectedCategory}

\* the inclusion rule of the data model
Visible(r) ==
    /\ r.Category \in ActiveCategories
    /\ selectedState = NULL \/ r.State = selectedState

IsToggle(g) == g.op \in {"barClick", "checkboxChange"}

\* C1: in every observable state all drawn views (bar chart, line chart,
\* scatter, map) show the same, current selection.
C1_AllViewsReflectSelection ==
    Reflects(bar) /\ Reflects(line) /\ Reflects(scatter) /\ Reflects(map)

\* C2 as stated: a record contributes to the aggregate of any drawn view
\* iff its category is active and no region is selected or its region is
\* the selected one.
ContributesIffVisible(v) ==
    v.drawn => \A r \in Range(data) : (r.id \in v.rows) <=> Visible(r)

C2_ContributesIffVisible ==
    /\ ContributesIffVisible(bar)
    /\ ContributesIffVisible(line)
    /\ ContributesIffVisible(scatter)
    /\ ContributesIffVisible(map)

CatOk(r) == selectedCategory = NULL \/ r.Category = selectedCategory
StateOk(r) == selectedState = NULL \/ r.State = selectedState

\* C2 amended: in the coordinated variant every record contributes to the
\* category totals and to the map's state totals; a record contributes to
\* the monthly totals iff its state passes the state selection; it is a
\* scatter point iff its category and state pass the selection and its
\* Sales is a number > 0.  In the checkbox variant a record contributes to
\* the category totals iff its category is in selectedCategories.
C2_ContributesPerView ==
    /\ variant = "coordinated" =>
        /\ bar.drawn => bar.rows = Ids(data)
        /\ map.drawn => map.rows = Ids(data)
        /\ line.drawn =>
             \A r \in Range(data) : (r.id \in line.rows) <=> StateOk(r)
        /\ scatter.drawn =>
             \A r \in Range(data) :
                (r.id \in scatter.rows) <=>
                    (CatOk(r) /\ StateOk(r) /\ ~IsNaN(r, "Sales")
                     /\ r.Sales > 0)
    /\ variant = "checkbox" =>
        (bar.drawn =>
            \A r \in Range(data) :
                (r.id \in bar.rows) <=> (r.Category \in selectedCategories))

C2_Witness ==
    /\ variant = "coordinated"
    /\ selectedCategory # NULL /\ selectedState # NULL
    /\ scatter.drawn /\ scatter.rows # {}
    /\ line.rows # Ids(data)
    /\ \E r \in Range(data) : StateOk(r) /\ ~CatOk(r)

InScenario == variant = "coordinated" /\ rawRows = Scenario /\ bar.drawn

\* C3 as stated: in the scenario the category aggregate is
\* [(A,125),(B,50)] with nothing selected, [(A,100),(B,50)] once region X
\* is selected, and [(A,100)] once category B is toggled as well.
C3_ScenarioAsStated ==
    InScenario =>
        /\ (selectedCategory = NULL /\ selectedState = NULL)
              => bar.chartData = << <<"A", 125>>, <<"B", 50>> >>
        /\ (selectedCategory = NULL /\ selectedState = "X")
              => bar.chartData = << <<"A", 100>>, <<"B", 50>> >>
        /\ (selectedState = "X" /\ HasLast /\ Last.op = "barClick"
            /\ Last.arg = "B" /\ Last.before.cat = NULL)
              => bar.chartData = << <<"A", 100>> >>

\* C3 amended: in the scenario the bars are [(A,125),(B,50)] in every
\* selection; after region X is selected the overlay holds X's share
\* [(A,100),(B,50)]; a click on bar B then selects B (it does not remove
\* it), and the scatter holds the one record of B in X.
C3_ScenarioBarsGlobal ==
    InScenario =>
        /\ bar.chartData = << <<"A", 125>>, <<"B", 50>> >>
        /\ selectedState = "X"
              => bar.overlay = << <<"A", 100>>, <<"B", 50>> >>
        /\ (selectedState = "X" /\ HasLast /\ Last.op = "barClick"
            /\ Last.arg = "B" /\ Last.before.cat = NULL)
              => selectedCategory = "B" /\ scatter.rows = {2}

C3_Witness ==
    /\ InScenario
    /\ HasTwo
    /\ Prev.op = "mapClick" /\ Prev.arg = "X" /\ Prev.before.state = NULL
    /\ Prev.before.cat = NULL
    /\ Last.op = "barClick" /\ Last.arg = "B"
    /\ selectedState = "X" /\ selectedCategory = "B"

TwoTogglesOfSame ==
    /\ HasTwo
    /\ IsToggle(Prev) /\ Last.op = Prev.op /\ Last.arg = Prev.arg

\* C4 as stated: two toggles of the same category in a row restore the
\* category selection that held before the first.
C4_ToggleTwiceRestores ==
    TwoTogglesOfSame =>
        /\ selectedCategory = Prev.before.cat
        /\ selectedCategories = Prev.before.cats

\* C4 amended: two toggles of category x in a row restore the category
\* selection, except in the coordinated variant when a category other than
\* x was selected before the first click: then no category is selected
\* afterwards.
C4_ToggleTwiceRestoresUnlessOther ==
    TwoTogglesOfSame =>
        /\ selectedCategories = Prev.before.cats
        /\ Prev.before.cat \in {NULL, Prev.arg}
              => selectedCategory = Prev.before.cat
        /\ Prev.before.cat \notin {NULL, Prev.arg}
              => selectedCategory = NULL

C4_Witness ==
    /\ TwoTogglesOfSame
    /\ Last.op = "barClick"
    /\ Prev.before.cat \notin {NULL, Prev.arg}
    /\ selectedCategory = NULL

TwoClicksOfSameState ==
    /\ HasTwo
    /\ Prev.op = "mapClick" /\ Last.op = "mapClick" /\ Last.arg = Prev.arg

\* C5 as stated: selecting region R twice in a row leaves the selection
\* as if 'none' had been selected, whatever was selected before.
C5_SelectTwiceIsNone ==
    TwoClicksOfSameState =>
        Filter = [Prev.before EXCEPT !.state = NULL]

\* C5 amended: selecting region R twice in a row leaves no region selected
\* and the category selection as it was, provided R was not the selected
\* region before the first click; if it was, R is selected again.
C5_SelectTwiceIsNoneUnlessSelected ==
    TwoClicksOfSameState =>
        /\ selectedCategory = Prev.before.cat
        /\ selectedCategories = Prev.before.cats
        /\ Prev.before.state # Prev.arg => selectedState = NULL
        /\ Prev.before.state = Prev.arg => selectedState = Prev.arg

C5_Witness ==
    /\ TwoClicksOfSameState
    /\ Prev.before.state \notin {NULL, Prev.arg}
    /\ selectedState = NULL

\* C6: a click on a region R other than the selected one (or with none
\* selected) makes R the one selected region.
C6_SelectReplaces ==
    (HasLast /\ Last.op = "mapClick" /\ Last.before.state # Last.arg) =>
        /\ selectedState = Last.arg
        /\ line.trend = Last.arg
        /\ map.sel.state = Last.arg

C6_Witness ==
    /\ HasLast /\ Last.op = "mapClick"
    /\ Last.before.state \notin {NULL, Last.arg}
    /\ selectedState = Last.arg

\* C7: a toggle of a category label outside the known universe is
\* rejected: the caller gets an invalid-selection signal and the selection
\* is unchanged.
C7_UnknownToggleRejected ==
    (HasLast /\ IsToggle(Last) /\ Last.arg \notin KnownCategories) =>
        /\ Last.signal = "invalid"
        /\ Filter = Last.before

\* C8 as stated: the selected region is none or a region with a loaded
\* record.
C8_RegionHasRecords ==
    selectedState = NULL \/ selectedState \in KnownStates

\* C8 amended: the selected region is none or the name of a map feature; a
\* click on a map state without loaded records is accepted like any other:
\* it becomes the selected region and the line chart and the scatter show
\* their empty-selection message.
C8_RegionIsFeature ==
    /\ selectedState \in GeoStates \cup {NULL}
    /\ (HasLast /\ Last.op = "mapClick" /\ Last.arg \notin KnownStates
        /\ Last.before.state # Last.arg) =>
            /\ selectedState = Last.arg
            /\ line.message /\ line.chartData = << >>
            /\ scatter.message /\ scatter.rows = {}

C8_Witness ==
    /\ HasLast /\ Last.op = "mapClick"
    /\ selectedState = "Z" /\ "Z" \notin KnownStates
    /\ line.message

\* the categories that are selected as active
SelectedSet ==
    IF variant = "checkbox" THEN selectedCategories
    ELSE {selectedCategory} \ {NULL}

\* C9: once the data is loaded the active category selection is a subset
\* of the categories present in the loaded dataset.
C9_ActiveSubsetOfKnown == loaded => SelectedSet \subseteq KnownCategories

\* C10: a selection request redraws the views iff it is valid; a toggle of
\* a category outside the known universe redraws nothing.
C10_RedrawIffValid ==
    HasLast =>
        (Last.redrawn <=> ~(IsToggle(Last) /\ Last.arg \notin KnownCategories))

\* C11 as stated: whenever no category is active, the category, month and
\* region aggregates shown are all empty: no group, not even one of value 0.
C11_EmptySelectionAllEmpty ==
    (loaded /\ ActiveCategories = {}) =>
        /\ bar.chartData = << >>
        /\ line.chartData = << >>
        /\ map.drawn => map.chartData = {}

\* C11 amended: whenever selectedCategories is empty, the category
\* aggregate is empty, the scatter has no rows and the monthly aggregate
\* drawn by updateAllCharts is empty; a map layer drawn from rows filtered
\* by the empty selection has an entry for every map state, each of value 0.
C11_EmptySelectionEmptyRollups ==
    /\ (variant = "checkbox" /\ loaded /\ selectedCategories = {}) =>
        /\ bar.chartData = << >> /\ bar.rows = {}
        /\ scatter.rows = {}
        /\ line.trend = NULL => line.chartData = << >>
    /\ (variant = "checkbox" /\ map.drawn /\ map.sel.cats = {}) =>
        map.chartData = {<< s, 0 >> : s \in GeoStates}

C11_Witness ==
    /\ variant = "checkbox" /\ loaded /\ Len(data) > 0
    /\ selectedCategories = {}
    /\ bar.drawn /\ line.trend = NULL
    /\ map.drawn /\ map.sel.cats = {}


\* the sum of the values of an ordered aggregate
RECURSIVE SumValues(_)
SumValues(entries) ==
    IF entries = << >> THEN 0
    ELSE Head(entries)[2] + SumValues(Tail(entries))

\* the sum of the values the map shows for its states
RECURSIVE SumFeatureValues(_)
SumFeatureValues(entries) ==
    IF entries = {} THEN 0
    ELSE LET e == CHOOSE x \in entries : TRUE
         IN e[2] + SumFeatureValues(entries \ {e})

\* the map was drawn for the selection the bar chart was drawn for
MapForSameSelection ==
    /\ bar.drawn /\ map.drawn
    /\ variant = "checkbox" => map.sel.cats = bar.sel.cats

\* C12: the values of the category aggregate and the values of the region
\* aggregate computed for the same selection have the same sum.
C12_CategorySumEqualsRegionSum ==
    MapForSameSelection =>
        SumValues(bar.chartData) = SumFeatureValues(map.chartData)

C12_Witness ==
    /\ variant = "checkbox"
    /\ MapForSameSelection
    /\ selectedCategories # SeedCategories
    /\ bar.rows # Ids(data)
    /\ Len(bar.chartData) >= 1
    /\ SumValues(bar.chartData) > 0
    /\ Cardinality({e \in map.chartData : e[2] # 0}) >= 1


\* C13: no record with an unparseable date or a non-numeric measure is in
\* the loaded dataset.
C13_NoInvalidRecordLoaded ==
    \A r \in Range(data) : r.dateOk /\ r.nan = {}

\* the category labels in ascending order
LabelOrder == << "A", "B", "Furniture", "Office Supplies", "Technology" >>

LabelRank(l) == CHOOSE i \in DOMAIN LabelOrder : LabelOrder[i] = l

\* C14: the category aggregate is in descending order of sum, and entries
\* of equal sum are in ascending order of label.
C14_DescendingTiesByLabel ==
    bar.drawn =>
        \A i, j \in DOMAIN bar.chartData :
            i < j =>
                \/ bar.chartData[i][2] > bar.chartData[j][2]
                \/ /\ bar.chartData[i][2] = bar.chartData[j][2]
                   /\ LabelRank(bar.chartData[i][1])
                        < LabelRank(bar.chartData[j][1])

\* the records the line chart was computed over
LineRecords == {r \in Range(data) : r.id \in line.rows}

\* C15: the monthly aggregate has exactly one entry for every calendar
\* month of a surviving record, in strictly ascending order of month.
C15_OneEntryPerCalendarMonth ==
    line.drawn =>
        /\ {line.chartData[i][1] : i \in DOMAIN line.chartData}
              = {r.Month : r \in {x \in LineRecords : x.dateOk}}
        /\ \A i, j \in DOMAIN line.chartData :
              i < j => line.chartData[i][1] < line.chartData[j][1]

\* the records of the selected state in a category
OverlayRecords(c) ==
    {r \in Range(data) : r.State = bar.sel.state /\ r.Category = c}

\* the records of a state among the rows the map layer was drawn from
MapRecords(s) == {r \in Range(map.bound) : r.State = s}

\* the bars and the monthly entries are groups with at least one record
RollupGroupsNonEmpty ==
    /\ bar.drawn =>
        \A i \in DOMAIN bar.chartData :
            \E r \in Range(data) :
                r.id \in bar.rows /\ r.Category = bar.chartData[i][1]
    /\ line.drawn =>
        \A i \in DOMAIN line.chartData :
            \E r \in LineRecords : MonthKey(r) = line.chartData[i][1]

\* C16 as stated: no view is handed a group without a surviving record:
\* not the bars, not the monthly entries, not the state overlay, not the
\* values of the map.
C16_NoGroupWithoutRecords ==
    /\ RollupGroupsNonEmpty
    /\ \A i \in DOMAIN bar.overlay :
            OverlayRecords(bar.overlay[i][1]) # {}
    /\ map.drawn => \A e \in map.chartData : MapRecords(e[1]) # {}

\* C16 amended: the bars and the monthly entries are groups with at least
\* one record; the state overlay and the map are zero-filled: the overlay
\* has one entry for every bar and the map one value for every map state,
\* and the value is 0 where no record survives.
C16_OverlayAndMapZeroFilled ==
    /\ RollupGroupsNonEmpty
    /\ (bar.drawn /\ variant = "coordinated" /\ bar.sel.state # NULL) =>
        /\ Len(bar.overlay) = Len(bar.chartData)
        /\ \A i \in DOMAIN bar.overlay :
              /\ bar.overlay[i][1] = bar.chartData[i][1]
              /\ OverlayRecords(bar.overlay[i][1]) = {}
                    => bar.overlay[i][2] = 0
    /\ map.drawn =>
        /\ {e[1] : e \in map.chartData} = GeoStates
        /\ \A e \in map.chartData : MapRecords(e[1]) = {} => e[2] = 0

C16_Witness ==
    /\ variant = "coordinated"
    /\ map.drawn /\ \E e \in map.chartData : MapRecords(e[1]) = {}
    /\ bar.drawn /\ bar.sel.state \in KnownStates
    /\ \E i \in DOMAIN bar.overlay :
          OverlayRecords(bar.overlay[i][1]) = {} /\ bar.overlay[i][2] = 0

\* C17: no selection gesture takes effect before the dataset is loaded.
C17_NoGestureBeforeLoad ==
    ~loaded =>
        /\ hist = << >>
        /\ selectedCategory = NULL /\ selectedState = NULL
        /\ selectedCategories = SeedCategories

C17_Witness ==
    /\ loaded /\ HasLast
    /\ Filter # Last.before
    /\ pending # EmptyBag

\* C18: when a gesture is handled, the recompute every earlier gesture
\* started, its map load included, has finished.
C18_GestureAfterRecomputeDone ==
    [][hist' # hist =>
         \A load \in BagToSet(pending) : load.origin # "gesture"]_vars

\* C20: when the views are first drawn every category of the dataset is
\* active and no region is selected.
C20_InitiallyAllActiveNoRegion ==
    (loaded /\ hist = << >>) =>
        /\ KnownCategories \subseteq ActiveCategories
        /\ selectedState = NULL


\* C19: a step changes the category selection or the region selection
\* only if it is a bar click, a checkbox change or a map click; hovering,
\* tooltips, redraws and the two loads leave both selections as they are.
C19_OnlyTogglesChangeFilter ==
    [][Filter' # Filter =>
         /\ hist' # hist
         /\ hist'[Len(hist')].op \in {"barClick", "checkboxChange", "mapClick"}
         /\ hist'[Len(hist')].before = Filter]_vars

C19_Witness ==
    /\ hover.tooltip
    /\ hover.highlight # NULL \/ hover.stroke # NULL
    /\ HasLast /\ Filter # Last.before
    /\ Filter # [cat |-> NULL, state |-> NULL, cats |-> SeedCategories]


\* C21: once the load callback has stored the records, no step (gesture,
\* hover, redraw, map load) adds, removes or changes a record.
C21_DataImmutableAfterLoad ==
    [][loaded => data' = data]_vars

C21_Witness ==
    /\ loaded /\ data # << >>
    /\ HasTwo /\ Filter # Prev.before
    /\ hover.tooltip
    /\ data = IF variant = "coordinated" THEN LoadCoordinated(rawRows)
              ELSE LoadCheckbox(rawRows)

\* C22: a selection without a matching record is drawn like any other:
\* every view of the recompute is redrawn for the current selection, the
\* line chart and the scatter of the coordinated script show their
\* empty-state message, the views of the checkbox script are drawn from an
\* empty aggregate, and the views after an empty one are redrawn too.
C22_EmptySelectionRedrawsAll ==
    loaded =>
        /\ bar.drawn /\ line.drawn /\ scatter.drawn
        /\ map.drawn \/ pending # EmptyBag
        /\ variant = "coordinated" =>
            /\ Reflects(bar) /\ Reflects(line) /\ Reflects(scatter)
            /\ line.message <=> line.rows = {}
            /\ scatter.message <=> scatter.rows = {}
        /\ variant = "checkbox" =>
            /\ Reflects(bar) /\ Reflects(scatter)
            /\ bar.rows = {} => bar.chartData = << >>
            /\ line.rows = {} => line.chartData = << >>

C22_Witness ==
    /\ variant = "coordinated"
    /\ selectedState # NULL /\ selectedState \notin KnownStates
    /\ bar.drawn /\ bar.sel.state = selectedState
    /\ line.message /\ line.sel.state = selectedState
    /\ scatter.message /\ scatter.sel.state = selectedState


\* the values the loaded records take on an axis
AxisKeys(axis) == {KeyOf(r, axis) : r \in Range(data)}

\* a view is restricted along an axis when it shows some records, not all,
\* and exactly those whose value on the axis is among some of the values
ShowsOnly(rows, axis) ==
    /\ rows # {} /\ rows # Ids(data)
    /\ \E V \in SUBSET AxisKeys(axis) :
          rows = {r.id : r \in {x \in Range(data) : KeyOf(x, axis) \in V}}

RestrictedBy(axis) ==
    \/ bar.drawn /\ ShowsOnly(bar.rows, axis)
    \/ line.drawn /\ ShowsOnly(line.rows, axis)
    \/ scatter.drawn /\ ShowsOnly(scatter.rows, axis)

\* the views as first drawn, map included, and nothing selected yet
FirstDrawn ==
    /\ loaded /\ map.drawn /\ pending = EmptyBag
    /\ hist = << >> /\ ~RestrictedBy("State")

\* C23: on the scenario dataset in the coordinated script, from the views
\* as first drawn, for each of the axes category, region and date there is
\* a gesture after which a view shows exactly the records of some values
\* of that axis.
C23_GestureForEveryAxis ==
    (variant = "coordinated" /\ rawRows = Scenario /\ FirstDrawn) =>
        /\ ENABLED (Next /\ RestrictedBy("Category")')
        /\ ENABLED (Next /\ RestrictedBy("State")')
        /\ ENABLED (Next /\ RestrictedBy("Month")')


\* C24: a category toggle leaves the region selection and the state the
\* line chart is drawn for as they are, and a region click leaves the
\* category selection as it is.
C24_AxesIndependent ==
    [][hist' # hist =>
         LET g == hist'[Len(hist')] IN
         /\ g.op \in {"barClick", "checkboxChange"} =>
               selectedState' = selectedState /\ line'.trend = line.trend
         /\ g.op = "mapClick" =>
               /\ selectedCategory' = selectedCategory
               /\ selectedCategories' = selectedCategories]_vars

\* C25: checkbox script: when no map load is in flight the map holds one
\* layer of states and bubbles, and its values are the sums per state of
\* the records of the categories selected now.
C25_MapSingleLayerLatest ==
    (variant = "checkbox" /\ loaded /\ pending = EmptyBag) =>
        /\ map.drawn /\ map.layers = 1
        /\ map.sel.cats = selectedCategories
        /\ map.chartData =
             FeatureSales(SelectSeq(data,
                 LAMBDA r : r.Category \in selectedCategories))

\* C26: coordinated script: selectedCategory is null or a category with a
\* bar; a click on the bar of another category selects that category, a
\* click on the bar of the selected category resets it to null.
C26_SingleCategory ==
    variant = "coordinated" =>
        /\ selectedCategory = NULL
              \/ /\ bar.drawn
                 /\ \E i \in DOMAIN bar.chartData :
                       bar.chartData[i][1] = selectedCategory
        /\ (HasLast /\ Last.op = "barClick") =>
              selectedCategory =
                 IF Last.before.cat = Last.arg THEN NULL ELSE Last.arg

C26_Witness ==
    /\ variant = "coordinated"
    /\ HasTwo /\ Prev.op = "barClick" /\ Last.op = "barClick"
    /\ Last.before.cat = Prev.arg /\ Last.arg # Prev.arg
    /\ selectedCategory = Last.arg


\* the state paths drawn with the yellow stroke: the one styled as
\* selected and the one carrying the hover stroke
YellowPaths ==
    IF map.drawn
    THEN ({map.sel.state} \cup {hover.stroke}) \ {NULL}
    ELSE {}

\* C27: coordinated script: after a map click and after a mouseout of a
\* state path the paths with the selected styling are exactly the selected
\* state (none when nothing is selected), so no hover stroke is left, and
\* a bar click leaves the styled paths as they are.
C27_SelectedStylingExact ==
    [][(variant = "coordinated" /\ map.drawn) =>
         /\ ( \/ hist' # hist /\ hist'[Len(hist')].op = "mapClick"
              \/ hover.pointer # NULL /\ hover'.pointer = NULL )
            => YellowPaths' = {selectedState'} \ {NULL}
         /\ (hist' # hist /\ hist'[Len(hist')].op = "barClick")
            => YellowPaths' = YellowPaths]_vars

C27_Witness ==
    /\ variant = "coordinated" /\ map.drawn
    /\ selectedState # NULL
    /\ hover.pointer \notin {NULL, selectedState}
    /\ hover.stroke = hover.pointer
    /\ YellowPaths = {selectedState, hover.pointer}


\* the sum of Sales over the records of a set, NaN skipped
RECURSIVE TotalOf(_)
TotalOf(S) ==
    IF S = {} THEN 0
    ELSE LET r == CHOOSE x \in S : TRUE
         IN (IF IsNaN(r, "Sales") THEN 0 ELSE r.Sales) + TotalOf(S \ {r})

\* C28: coordinated script: whatever is selected, the bars are the totals
\* per category of the whole dataset and the map values the totals per
\* state of the whole dataset.
C28_TotalsFromFullDataset ==
    variant = "coordinated" =>
        /\ bar.drawn =>
            /\ {bar.chartData[i][1] : i \in DOMAIN bar.chartData}
                  = KnownCategories
            /\ \A i \in DOMAIN bar.chartData :
                  bar.chartData[i][2] =
                     TotalOf({r \in Range(data) :
                                 r.Category = bar.chartData[i][1]})
        /\ map.drawn =>
            \A e \in map.chartData :
                e[2] = TotalOf({r \in Range(data) : r.State = e[1]})

C28_Witness ==
    /\ variant = "coordinated"
    /\ selectedCategory # NULL /\ selectedState \in KnownStates
    /\ bar.drawn /\ bar.overlay # << >> /\ Reflects(bar)
    /\ map.drawn /\ map.sel.state = selectedState
    /\ scatter.drawn /\ scatter.rows # Ids(data)
    /\ line.drawn /\ line.rows # Ids(data)

\* the records the scatter has to show for the current selection
Plottable ==
    {r \in Range(data) :
        CatOk(r) /\ StateOk(r) /\ ~IsNaN(r, "Sales") /\ r.Sales > 0}

\* C29: coordinated script: the points of the scatter are the records of
\* the selected category and state with Sales > 0, and the scatter shows
\* its message exactly when there is no such record.
C29_ScatterPointsExact ==
    (variant = "coordinated" /\ scatter.drawn) =>
        /\ scatter.rows = {r.id : r \in Plottable}
        /\ scatter.message <=> Plottable = {}

C29_Witness ==
    /\ variant = "coordinated" /\ scatter.drawn
    /\ scatter.message /\ scatter.rows = {}
    /\ \E r \in Range(data) :
          CatOk(r) /\ StateOk(r) /\ ~IsNaN(r, "Sales") /\ r.Sales <= 0


\* the modal is hidden and the video paused at its start
ModalClosed(m) == m.hidden /\ m.paused /\ m.currentTime = 0

\* a click or key press handled by the modal script other than the last one
ModalEvent(e) == modal'.event = e /\ modal.event # e

\* C30: the modal becomes visible only by a click on the demo button; the
\* close button, a click on the modal itself and Escape while the modal is
\* visible hide it, pause the video and rewind it, so a hidden modal has
\* its video paused at 0; Escape while the modal is hidden and a click
\* inside the modal content change nothing.
C30_ModalStateMachine ==
    [][/\ (modal.hidden /\ ~modal'.hidden) => ModalEvent("demoBtn")
       /\ (ModalEvent("closeBtn") \/ ModalEvent("background"))
             => ModalClosed(modal')
       /\ (ModalEvent("escape") /\ ~modal.hidden) => ModalClosed(modal')
       /\ ( \/ ModalEvent("escape") /\ modal.hidden
            \/ ModalEvent("content") )
             => modal' = [modal EXCEPT !.event = modal'.event]
       /\ modal'.hidden => ModalClosed(modal')]_vars

C30_Witness ==
    /\ modal.event \in {"closeBtn", "background", "escape"}
    /\ ModalClosed(modal)
    /\ loaded

====
